---- MODULE Spec2Model ----
(***************************************************************************)
(* Payment-to-ticket reconciliation of the event platform: initiatePayment *)
(* and verifyPayment of the named-tier controller, the payment service's   *)
(* Stripe and Wave verification, and the Event pre-save hook.  Every await *)
(* of a handler is one step, so concurrent requests interleave exactly at  *)
(* the suspension points of the code.                                      *)
(***************************************************************************)
EXTENDS Integers, Sequences, FiniteSets, TLC

\* ---- bounds of the model ------------------------------------------------
MaxPayments == 2      \* initiate calls that create a payment
MaxQty == 2           \* largest quantity requested by one initiate
MaxCalls == 2         \* verify requests started in one behaviour
MaxFaults == 2        \* awaited operations that reject (database, QR, network)
MaxOps == 3           \* transfer / cancel / scan requests started in one behaviour
MaxTime == 3          \* the clock runs from 0 to MaxTime (units of 12 hours)
MaxSends == 2         \* times one session-creation request reaches the gateway

\* ---- the event and its tiers ----------------------------------------------
TierNames == {"VIP", "STD"}

\* createEvent: the ticketTypes an organizer gives an event (at least one tier,
\* every quantity > 0): a one-tier and a two-tier event
EventConfigs ==
  { [t \in {"VIP"} |-> 2],
    [t \in TierNames |-> IF t = "VIP" THEN 2 ELSE 1] }

Refs == 1..MaxPayments
Gateways == {"stripe", "wave"}
Procs == {"A", "B"}

PAYMENT_STATUS == [PENDING |-> "pending", SUCCESS |-> "success", FAILED |-> "failed"]

VARIABLES
  quantity,   \* event.ticketTypes[i].quantity, per tier name
  sold,       \* event.ticketTypes[i].sold, per tier name
  soldOut,    \* event.soldOut
  payments,   \* Payment collection, by reference
  tickets,    \* Ticket collection, by paymentReference: sequence of tickets
  gwState,    \* the gateway's own record of each checkout session
  nextRef,    \* next payment reference to be generated
  proc,       \* in-flight verifyPayment requests: position and locals
  calls,      \* verify requests started so far
  faults,     \* rejected awaits so far
  ireq,       \* the in-flight initiatePayment request: position and locals
  now,        \* the clock (Date.now()), in units of 12 hours
  tkt,        \* one Ticket document, as stored, for transfer / cancel / scan
  userTickets,\* the users whose tickets array holds that ticket
  treq,       \* in-flight transfer / cancel / scan requests: position and locals
  ops,        \* transfer / cancel / scan requests started so far
  qr,         \* a QR payload: as generated, as presented, and the verdict
  wave,       \* a response of Wave's checkout-session endpoint and its outcome
  fx,         \* a currency conversion: its inputs, the rate fetch, its result
  gwLog       \* per reference: the idempotency keys of the session-creation
              \* requests received by the gateway, and the sessions it created

\* what transferTicket, cancelTransfer, scanTicket and the QR service work on
ticketOps == <<now, tkt, userTickets, treq, ops, qr>>

\* what initiatePayment / verifyPayment in their atomic form never touch
aux == <<ireq, ticketOps, wave, gwLog, fx>>

vars == <<quantity, sold, soldOut, payments, tickets, gwState, nextRef, proc, calls, faults, aux>>

NoPayment == [status |-> "none", gateway |-> "none", tier |-> "none", qty |-> 0, tickets |-> <<>>]

NoEvent == [sold |-> <<>>, soldOut |-> FALSE]

IdleProc == [pc |-> "idle", gateway |-> "none", kind |-> "none", n |-> 0,
             pay |-> 0, lst |-> "none", tl |-> <<>>, i |-> 0,
             ev |-> NoEvent, credited |-> FALSE, resp |-> "none", cause |-> "none",
             entry |-> "none"]

IdleInit == [pc |-> "idle", event |-> "none", ref |-> 0, tier |-> "none", qty |-> 0,
             gateway |-> "none", i |-> 0, resp |-> "none", cause |-> "none"]

\* ---- tickets, users and the clock -------------------------------------------------

\* registered accounts; "A" is the buyer
Users == {"A", "B", "C"}

\* admins who scan at the door
Admins == {"S1", "S2"}

\* the e-mail address / mobile number a ticket is transferred to: that of a
\* registered account, or "x", which belongs to no account
Contacts == Users \cup {"x"}

\* 24 * 60 * 60 * 1000 ms, in clock units
TransferWindow == 2

TSlots == {1, 2}

\* createTickets: the ticket of buyer "A" with the recipient given at purchase;
\* st is the status the payment flow has given it, d the date of its event
NewTicket(st, d) ==
  [status |-> st, user |-> "A", recipientInfo |-> "r0", transferred |-> FALSE,
   transferHistory |-> <<>>, scanned |-> FALSE, scannedAt |-> -1, scannedBy |-> "null",
   eventDate |-> d]

IdleReq == [op |-> "none", pc |-> "idle", caller |-> "none", to |-> "none",
            doc |-> NewTicket("none", 0), recipientUser |-> "null",
            resp |-> "none", cause |-> "none", n |-> 0, i |-> 0]

NoGwLog == [r \in Refs |-> [keys |-> <<>>, sessions |-> 0]]

NoWave == [data |-> <<>>, outcome |-> "none"]

\* the currency codes of the rate table
Currencies == {"USD", "EUR", "GBP", "GMD", "XOF"}

NoRates == [c \in Currencies |-> 0]

NoFx == [amount |-> 0, from |-> "none", to |-> "none",
         fetch |-> [kind |-> "none", rates |-> NoRates],
         result |-> [status |-> "none", amount |-> 0, rate |-> <<0, 0>>]]

NoQr == [made |-> <<>>, shown |-> <<>>, verdict |-> "none"]

\* no ticket operation and no QR code is in play
TicketOpsIdle ==
  /\ now = 0
  /\ tkt = NewTicket("pending", 0)
  /\ userTickets = {}
  /\ treq = [s \in TSlots |-> IdleReq]
  /\ ops = 0
  /\ qr = NoQr

\* an event, no payment yet, no request in flight
PayInit ==
  /\ wave = NoWave
  /\ fx = NoFx
  /\ gwLog = NoGwLog
  /\ ireq = IdleInit
  /\ quantity \in EventConfigs
  /\ sold = [t \in DOMAIN quantity |-> 0]
  /\ soldOut = FALSE
  /\ payments = [r \in Refs |-> NoPayment]
  /\ tickets = [r \in Refs |-> <<>>]
  /\ gwState = [r \in Refs |-> "none"]
  /\ nextRef = 1
  /\ proc = [p \in Procs |-> IdleProc]
  /\ calls = 0
  /\ faults = 0

Init == TicketOpsIdle /\ PayInit

\* ---- Event model ------------------------------------------------------------

\* eventSchema.pre("save"): every tier has sold >= quantity
AllSoldOut(s) == \A t \in DOMAIN quantity : s[t] >= quantity[t]

isTicketTypeAvailable(t) == t \in DOMAIN quantity /\ sold[t] < quantity[t]

\* ---- initiatePayment ----------------------------------------------------------

\* mutant: the requested quantity is not compared with what is left
InitiateCheckNoQuantity(t, q) ==
  IF soldOut THEN "EventSoldOut"
  ELSE IF t \notin DOMAIN quantity THEN "InvalidTicketType"
  ELSE IF ~isTicketTypeAvailable(t) THEN "TierSoldOut"
  ELSE "ok"

\* the availability checks of initiatePayment, in the order of the code
InitiateCheck(t, q) ==
  IF soldOut THEN "EventSoldOut"
  ELSE IF t \notin DOMAIN quantity THEN "InvalidTicketType"
  ELSE IF ~isTicketTypeAvailable(t) THEN "TierSoldOut"
  ELSE IF q > quantity[t] - sold[t] THEN "InsufficientInventory"
  ELSE "ok"

\* mutant: the ticket reference does not carry the ticket's index
TicketRefNoIndex(r, i) == <<r, "TKT", 0>>

\* the ticket reference `${mainReference}-TKT-${i}`
TicketRef(r, i) == <<r, "TKT", i>>

\* the ticketReferences createTickets returns: those of tickets 0 .. q-1
TicketRefs(r, q) == [i \in 1..q |-> TicketRef(r, i - 1)]

\* ticketService.createTickets: quantity pending tickets, no QR code yet
createTickets(r, q) ==
  [i \in 1..q |-> [status |-> "pending", qr |-> 0, reference |-> TicketRef(r, i - 1),
                    scanned |-> FALSE]]

\* the idempotency key of the session-creation request: createWaveCheckout
\* sends the header "Idempotency-Key": reference, createStripeSession calls
\* stripe.checkout.sessions.create(params) without request options
IdempotencyKey(g, r) == IF g = "wave" THEN r ELSE 0

\* the gateway receives a session-creation request with key k for reference r:
\* a key it has seen before gives the session created then, anything else a
\* new session
Received(log, r, k) ==
  [log EXCEPT ![r] = [keys |-> Append(@.keys, k),
                      sessions |-> IF k # 0 /\ \E i \in 1..Len(@.keys) : @.keys[i] = k
                                     THEN @.sessions ELSE @.sessions + 1]]

Initiate(t, q, g) ==
  /\ nextRef <= MaxPayments
  /\ InitiateCheck(t, q) = "ok"
  /\ payments' = [payments EXCEPT ![nextRef] =
                    [status |-> PAYMENT_STATUS.PENDING, gateway |-> g, tier |-> t, qty |-> q,
                     tickets |-> TicketRefs(nextRef, q)]]
  /\ tickets' = [tickets EXCEPT ![nextRef] = createTickets(nextRef, q)]
  /\ gwState' = [gwState EXCEPT ![nextRef] = "open"]
  /\ gwLog' = Received(gwLog, nextRef, IdempotencyKey(g, nextRef))
  /\ nextRef' = nextRef + 1
  /\ UNCHANGED <<fx, ireq, ticketOps, wave, quantity, sold, soldOut, proc, calls, faults>>

\* ---- the gateways (environment) ---------------------------------------------

\* the customer pays, or the session is cancelled / expires, off-system (an
\* expired Stripe session keeps payment_status "unpaid": it is an open session
\* that is never paid)
GatewaySettles(r, s) ==
  /\ gwState[r] = "open"
  /\ s \in {"paid", "dead"}
  /\ s = "dead" => payments[r].gateway = "wave"
  /\ gwState' = [gwState EXCEPT ![r] = s]
  /\ UNCHANGED <<aux, quantity, sold, soldOut, payments, tickets, nextRef, proc, calls, faults>>


StripePaymentStatus(r) == IF gwState[r] = "paid" THEN "paid" ELSE "unpaid"

\* the body of GET /checkout/sessions/{waveSessionId}; a payment that has no
\* Wave session has no waveSessionId and the request answers 404
WaveData(r) ==
  IF payments[r].gateway # "wave" THEN [http |-> 404, payment_status |-> "none", checkout_status |-> "none"]
  ELSE IF gwState[r] = "paid" THEN [http |-> 200, payment_status |-> "succeeded", checkout_status |-> "complete"]
  ELSE IF gwState[r] = "dead" THEN [http |-> 200, payment_status |-> "cancelled", checkout_status |-> "expired"]
  ELSE [http |-> 200, payment_status |-> "processing", checkout_status |-> "open"]

\* mutant: every status other than success counts as failed
WaveOutcomeNotCompletedFails(w) ==
  IF w.http = 404 THEN "PENDING"
  ELSE IF w.payment_status = "succeeded" \/ w.checkout_status = "completed" THEN "SUCCESS"
  ELSE "FAILED"

\* mutant: no status of the provider ends the wait
WaveOutcomeAlwaysPending(w) == "PENDING"

\* verifyWavePayment: provider status to local outcome
WaveOutcome(w) ==
  IF w.http = 404 THEN "PENDING"
  ELSE IF w.payment_status = "succeeded" \/ w.checkout_status = "completed" THEN "SUCCESS"
  ELSE IF w.payment_status \in {"failed", "cancelled", "expired"} THEN "FAILED"
  ELSE "PENDING"

\* what GET /checkout/sessions/{id} may answer: the HTTP status and the two
\* status fields of the body
WaveResponses ==
  [http : {200, 404},
   payment_status : {"succeeded", "processing", "failed", "cancelled", "expired"},
   checkout_status : {"open", "complete", "completed", "expired"}]

\* verifyWavePayment's branch on one response
WaveClassify ==
  /\ wave.data # <<>>
  /\ wave.outcome = "none"
  /\ wave' = [wave EXCEPT !.outcome = WaveOutcome(wave.data)]
  /\ UNCHANGED <<fx, ireq, ticketOps, gwLog, quantity, sold, soldOut, payments, tickets, gwState,
                 nextRef, proc, calls, faults>>

InitWave ==
  /\ TicketOpsIdle
  /\ fx = NoFx
  /\ wave \in [data : WaveResponses, outcome : {"none"}]
  /\ gwLog = NoGwLog
  /\ ireq = IdleInit
  /\ quantity \in EventConfigs
  /\ sold = [t \in DOMAIN quantity |-> 0]
  /\ soldOut = FALSE
  /\ payments = [r \in Refs |-> NoPayment]
  /\ tickets = [r \in Refs |-> <<>>]
  /\ gwState = [r \in Refs |-> "none"]
  /\ nextRef = 1
  /\ proc = [p \in Procs |-> IdleProc]
  /\ calls = 0
  /\ faults = 0

NextWave == WaveClassify

SpecWave == InitWave /\ [][NextWave]_vars

\* ---- currency conversion --------------------------------------------------------

\* the codes a caller may pass: those of the rate table, one in another case,
\* one of no currency
CurrencyCodes == Currencies \cup {"usd", "ABC"}

\* rates are kept in hundredths (0.85 is 85), amounts of money in whole units
\* on input and in hundredths on output
FallbackRates ==
  [c \in Currencies |->
     CASE c = "USD" -> 100 [] c = "EUR" -> 85 [] c = "GBP" -> 73 [] c = "GMD" -> 5850
       [] c = "XOF" -> 55000]

\* what the request to the exchange-rate API may end in: "error" (axios
\* rejects: no connectivity, timeout, HTTP error), "nobody" (a response without
\* conversion_rates, reading rates.EUR throws) or "rates" with the
\* conversion_rates of the body, 0 standing for a missing or zero entry
FetchOutcomes ==
  { [kind |-> "error", rates |-> NoRates],
    [kind |-> "nobody", rates |-> NoRates],
    [kind |-> "rates", rates |-> NoRates],
    [kind |-> "rates", rates |-> [c \in Currencies |-> IF c = "EUR" THEN 90 ELSE 0]],
    [kind |-> "rates",
     rates |-> [c \in Currencies |->
                  CASE c = "USD" -> 100 [] c = "EUR" -> 90 [] c = "GBP" -> 80
                    [] c = "GMD" -> 6000 [] c = "XOF" -> 60000]] }

\* mutant: a failed fetch gives no rates
getExchangeRatesNoFallback(f) ==
  IF f.kind = "rates"
    THEN [c \in Currencies |->
            IF c = "USD" THEN 100
            ELSE IF f.rates[c] # 0 THEN f.rates[c] ELSE FallbackRates[c]]
    ELSE NoRates

\* getExchangeRates: the fetched rates, each with its fallback (rates.X || ..),
\* and the fallback table when the fetch fails
getExchangeRates(f) ==
  IF f.kind = "rates"
    THEN [c \in Currencies |->
            IF c = "USD" THEN 100
            ELSE IF f.rates[c] # 0 THEN f.rates[c] ELSE FallbackRates[c]]
    ELSE FallbackRates

\* rates[code]: undefined (falsy) for a code the table does not have
Rate(rates, c) == IF c \in DOMAIN rates THEN rates[c] ELSE 0

\* Math.round(x * 100) for x = a / rf * rt, in hundredths
Converted(a, rf, rt) == (200 * a * rt + rf) \div (2 * rf)

\* convertCurrency(amount, fromCurrency, toCurrency) with fetch outcome f
convertCurrency(a, from, to, f) ==
  IF from = to THEN [status |-> "ok", amount |-> 100 * a, rate |-> <<1, 1>>]
  ELSE LET rates == getExchangeRates(f)
       IN  IF Rate(rates, from) = 0 \/ Rate(rates, to) = 0
             THEN [status |-> "throws", amount |-> 0, rate |-> <<0, 0>>]
             ELSE [status |-> "ok",
                   amount |-> Converted(a, Rate(rates, from), Rate(rates, to)),
                   rate |-> <<Rate(rates, to), Rate(rates, from)>>]

\* one call of convertCurrency
FxConvert ==
  /\ fx.fetch.kind # "none"
  /\ fx.result.status = "none"
  /\ fx' = [fx EXCEPT !.result = convertCurrency(fx.amount, fx.from, fx.to, fx.fetch)]
  /\ UNCHANGED <<ireq, ticketOps, wave, gwLog, quantity, sold, soldOut, payments, tickets,
                 gwState, nextRef, proc, calls, faults>>

\* the amounts converted
FxAmounts == {1, 150}

InitFx ==
  /\ TicketOpsIdle
  /\ fx \in [amount : FxAmounts, from : CurrencyCodes, to : CurrencyCodes,
              fetch : FetchOutcomes, result : {NoFx.result}]
  /\ wave = NoWave
  /\ gwLog = NoGwLog
  /\ ireq = IdleInit
  /\ quantity \in EventConfigs
  /\ sold = [t \in DOMAIN quantity |-> 0]
  /\ soldOut = FALSE
  /\ payments = [r \in Refs |-> NoPayment]
  /\ tickets = [r \in Refs |-> <<>>]
  /\ gwState = [r \in Refs |-> "none"]
  /\ nextRef = 1
  /\ proc = [p \in Procs |-> IdleProc]
  /\ calls = 0
  /\ faults = 0

NextFx == FxConvert

SpecFx == InitFx /\ [][NextFx]_vars

\* ---- verifyPayment: helpers --------------------------------------------------

Running(p) == proc[p].pc \notin {"idle", "done"}

\* a request slot whose response has been delivered is forgotten as soon as
\* another request starts
Forget(q) == IF proc[q].pc = "done" THEN IdleProc ELSE proc[q]

Goto(p, pc) == [proc[p] EXCEPT !.pc = pc]

\* an exception reaches the catch block of verifyPayment
Throw(p, cause) == [proc[p] EXCEPT !.pc = "e1", !.cause = cause]

\* res.json / res.status(..).json: the request ends
Respond(p, r) ==
  [proc[p] EXCEPT !.pc = "done", !.resp = r, !.lst = "none", !.tl = <<>>, !.i = 0, !.ev = NoEvent]

\* mutant: the tickets are left as they are
FailTicketsSkipped(ts) == ts

\* Ticket.updateMany({paymentReference}, {$set: {status: "failed"}})
FailTickets(ts) == [i \in 1..Len(ts) |-> [ts[i] EXCEPT !.status = "failed"]]

Quiet == \A q \in Procs : ~Running(q)

\* ---- verifyPayment -------------------------------------------------------------

\* what the request finds when it arrives: the stored status of the payment it
\* names, or "overlap" when another verify request is still being served
EntryStatus(n) == IF \A q \in Procs : ~Running(q) THEN payments[n].status ELSE "overlap"

\* request slots are interchangeable: a new request takes the first free one
FreeSlot == IF ~Running("A") THEN "A" ELSE IF ~Running("B") THEN "B" ELSE "none"

\* POST /verify-payment {reference, gateway}.  kind "pay" is a payment
\* reference, kind "cs" the id of the Stripe checkout session of payment n.
Start(p, g, k, n) ==
  /\ p = FreeSlot
  /\ calls < MaxCalls
  /\ n < nextRef
  /\ k = "cs" => payments[n].gateway = "stripe"
  /\ proc' = [q \in Procs |->
                IF q = p
                  THEN [IdleProc EXCEPT !.pc = IF g = "stripe" THEN "s_retrieve" ELSE "w_find",
                                        !.gateway = g, !.kind = k, !.n = n,
                                        !.entry = EntryStatus(n)]
                  ELSE Forget(q)]
  /\ calls' = calls + 1
  /\ UNCHANGED <<aux, quantity, sold, soldOut, payments, tickets, gwState, nextRef, faults>>

\* stripe.checkout.sessions.retrieve(reference)
SRetrieve(p) ==
  /\ proc[p].pc = "s_retrieve"
  /\ proc' = [proc EXCEPT ![p] =
                IF proc[p].kind = "cs"
                  THEN [proc[p] EXCEPT !.pc = "s_find", !.pay = proc[p].n]
                  ELSE Throw(p, "NoSuchSession")]
  /\ UNCHANGED <<aux, quantity, sold, soldOut, payments, tickets, gwState, nextRef, calls, faults>>

\* verifyStripePayment: Payment.findOne({reference: session.client_reference_id})
SFind(p) ==
  /\ proc[p].pc = "s_find"
  /\ proc' = [proc EXCEPT ![p] =
                [proc[p] EXCEPT !.pc = "s_status", !.lst = payments[proc[p].pay].status]]
  /\ UNCHANGED <<aux, quantity, sold, soldOut, payments, tickets, gwState, nextRef, calls, faults>>

\* verifyStripePayment: second retrieve, payment_status !== "paid"
SStatus(p) ==
  /\ proc[p].pc = "s_status"
  /\ proc' = [proc EXCEPT ![p] =
                Goto(p, IF StripePaymentStatus(proc[p].pay) # "paid" THEN "upd_fail" ELSE "upd_ok")]
  /\ UNCHANGED <<aux, quantity, sold, soldOut, payments, tickets, gwState, nextRef, calls, faults>>

\* verifyWavePayment: Payment.findOne({reference}) and the dispatch on its status
WFind(p) ==
  /\ proc[p].pc = "w_find"
  /\ proc' = [proc EXCEPT ![p] =
                IF proc[p].kind # "pay" THEN Throw(p, "PaymentNotFound")
                ELSE LET st == payments[proc[p].n].status
                         me == [proc[p] EXCEPT !.pay = proc[p].n, !.lst = st]
                     IN  IF st = PAYMENT_STATUS.SUCCESS THEN [me EXCEPT !.pc = "c_save"]
                         ELSE IF st = PAYMENT_STATUS.PENDING THEN [me EXCEPT !.pc = "w_get"]
                         ELSE [me EXCEPT !.pc = "e1", !.cause = "PaymentHasFailed"]]
  /\ UNCHANGED <<aux, quantity, sold, soldOut, payments, tickets, gwState, nextRef, calls, faults>>

\* verifyWavePayment: axios.get of the session and the branch on its status
WGet(p) ==
  /\ proc[p].pc = "w_get"
  /\ LET o == WaveOutcome(WaveData(proc[p].pay))
     IN  proc' = [proc EXCEPT ![p] =
                    IF o = "SUCCESS" THEN Goto(p, "upd_ok")
                    ELSE IF o = "FAILED" THEN Goto(p, "upd_fail")
                    ELSE Respond(p, "pending")]
  /\ UNCHANGED <<aux, quantity, sold, soldOut, payments, tickets, gwState, nextRef, calls, faults>>

\* ---- updatePaymentStatus -------------------------------------------------------

\* updatePaymentStatus(reference, SUCCESS): Payment.findOneAndUpdate only
UpdOk(p) ==
  /\ proc[p].pc = "upd_ok"
  /\ payments' = [payments EXCEPT ![proc[p].pay].status = PAYMENT_STATUS.SUCCESS]
  /\ proc' = [proc EXCEPT ![p] = Goto(p, IF proc[p].gateway = "wave" THEN "w_refetch" ELSE "c_save")]
  /\ UNCHANGED <<aux, quantity, sold, soldOut, tickets, gwState, nextRef, calls, faults>>

\* verifyWavePayment: "Fetch updated payment"
WRefetch(p) ==
  /\ proc[p].pc = "w_refetch"
  /\ proc' = [proc EXCEPT ![p] =
                [proc[p] EXCEPT !.pc = "c_save", !.lst = payments[proc[p].pay].status]]
  /\ UNCHANGED <<aux, quantity, sold, soldOut, payments, tickets, gwState, nextRef, calls, faults>>

\* updatePaymentStatus(reference, FAILED): first the payment ...
UpdFail(p) ==
  /\ proc[p].pc = "upd_fail"
  /\ payments' = [payments EXCEPT ![proc[p].pay].status = PAYMENT_STATUS.FAILED]
  /\ proc' = [proc EXCEPT ![p] = Goto(p, "upd_fail_t")]
  /\ UNCHANGED <<aux, quantity, sold, soldOut, tickets, gwState, nextRef, calls, faults>>

\* ... then Ticket.updateMany, and the caller throws "Payment failed"
UpdFailTickets(p) ==
  /\ proc[p].pc = "upd_fail_t"
  /\ tickets' = [tickets EXCEPT ![proc[p].pay] = FailTickets(@)]
  /\ proc' = [proc EXCEPT ![p] = Throw(p, "PaymentFailed")]
  /\ UNCHANGED <<aux, quantity, sold, soldOut, payments, gwState, nextRef, calls, faults>>

\* ---- verifyPayment: the success path of the controller -------------------------

\* payment.status = "success"; await payment.save()  (save writes modified paths)
CSave(p) ==
  /\ proc[p].pc = "c_save"
  /\ payments' = IF proc[p].lst # "success"
                   THEN [payments EXCEPT ![proc[p].pay].status = "success"]
                   ELSE payments
  /\ proc' = [proc EXCEPT ![p] = Goto(p, "c_find")]
  /\ UNCHANGED <<aux, quantity, sold, soldOut, tickets, gwState, nextRef, calls, faults>>

\* mutant: the inventory increment comes before the loop over the tickets
CFindThenCredit(p) ==
  /\ proc[p].pc = "c_find"
  /\ LET ts == tickets[proc[p].pay]
     IN  proc' = [proc EXCEPT ![p] =
                    [proc[p] EXCEPT !.pc = "c_evfind", !.i = 1,
                                    !.tl = [i \in 1..Len(ts) |-> ts[i].status]]]
  /\ UNCHANGED <<aux, quantity, sold, soldOut, payments, tickets, gwState, nextRef, calls, faults>>

\* Ticket.find({paymentReference: payment.reference})
CFind(p) ==
  /\ proc[p].pc = "c_find"
  /\ LET ts == tickets[proc[p].pay]
     IN  proc' = [proc EXCEPT ![p] =
                    [proc[p] EXCEPT !.pc = "c_tsave", !.i = 1,
                                    !.tl = [i \in 1..Len(ts) |-> ts[i].status]]]
  /\ UNCHANGED <<aux, quantity, sold, soldOut, payments, tickets, gwState, nextRef, calls, faults>>

\* ticket.status = "success"; await ticket.save()
CTicketSave(p) ==
  /\ proc[p].pc = "c_tsave"
  /\ LET i == proc[p].i
     IN  tickets' = IF proc[p].tl[i] # "success"
                      THEN [tickets EXCEPT ![proc[p].pay][i].status = "success"]
                      ELSE tickets
  /\ proc' = [proc EXCEPT ![p] = Goto(p, "c_qrfind")]
  /\ UNCHANGED <<aux, quantity, sold, soldOut, payments, gwState, nextRef, calls, faults>>

\* ticketService.generateTicketQR: Ticket.findById and the paid check
CQrFind(p) ==
  /\ proc[p].pc = "c_qrfind"
  /\ proc' = [proc EXCEPT ![p] =
                IF tickets[proc[p].pay][proc[p].i].status # "success"
                  THEN Throw(p, "QRNotPaid")
                  ELSE Goto(p, "c_qrsave")]
  /\ UNCHANGED <<aux, quantity, sold, soldOut, payments, tickets, gwState, nextRef, calls, faults>>

\* generateTicketQRCode, ticket.qrCode = qrCode, ticket.save(); next ticket
CQrSave(p) ==
  /\ proc[p].pc = "c_qrsave"
  /\ LET i == proc[p].i
     IN  /\ tickets' = [tickets EXCEPT ![proc[p].pay][i].qr = @ + 1]
         /\ proc' = [proc EXCEPT ![p] =
                       IF i < Len(proc[p].tl)
                         THEN [proc[p] EXCEPT !.pc = "c_tsave", !.i = i + 1]
                         ELSE Goto(p, "c_evfind")]
  /\ UNCHANGED <<aux, quantity, sold, soldOut, payments, gwState, nextRef, calls, faults>>

\* Event.findById(payment.event)
CEventFind(p) ==
  /\ proc[p].pc = "c_evfind"
  /\ proc' = [proc EXCEPT ![p] =
                [proc[p] EXCEPT !.pc = "c_evsave", !.ev = [sold |-> sold, soldOut |-> soldOut]]]
  /\ UNCHANGED <<aux, quantity, sold, soldOut, payments, tickets, gwState, nextRef, calls, faults>>

\* the tier's sold of the loaded event document after "sold += tickets.length"
Credit(ev, t, n) == [ev.sold EXCEPT ![t] = @ + n]

\* event.ticketTypes[i].sold += tickets.length; await event.save(): the
\* pre-save hook recomputes soldOut on the loaded document, and save writes the
\* paths that differ from what was loaded
CEventSave(p) ==
  /\ proc[p].pc = "c_evsave"
  /\ LET t == payments[proc[p].pay].tier
         doc == Credit(proc[p].ev, t, Len(proc[p].tl))
         hook == AllSoldOut(doc)
     IN  /\ sold' = [sold EXCEPT ![t] = doc[t]]
         /\ soldOut' = IF hook # proc[p].ev.soldOut THEN hook ELSE soldOut
  /\ proc' = [proc EXCEPT ![p] = [proc[p] EXCEPT !.pc = "c_ev2find", !.credited = TRUE]]
  /\ UNCHANGED <<aux, quantity, payments, tickets, gwState, nextRef, calls, faults>>

\* updatedEvent = Event.findById(..); allSoldOut decides whether it is saved
CEventRefind(p) ==
  /\ proc[p].pc = "c_ev2find"
  /\ proc' = [proc EXCEPT ![p] =
                Goto(p, IF AllSoldOut(sold) /\ ~soldOut THEN "c_ev2save" ELSE "c_sms")]
  /\ UNCHANGED <<aux, quantity, sold, soldOut, payments, tickets, gwState, nextRef, calls, faults>>

\* updatedEvent.soldOut = true; await updatedEvent.save()
CEventSoldOut(p) ==
  /\ proc[p].pc = "c_ev2save"
  /\ soldOut' = TRUE
  /\ proc' = [proc EXCEPT ![p] = Goto(p, "c_sms")]
  /\ UNCHANGED <<aux, quantity, sold, payments, tickets, gwState, nextRef, calls, faults>>

\* mutant: the error of the SMS block reaches the catch block of verifyPayment
CSmsFatal(p) ==
  /\ proc[p].pc = "c_sms"
  /\ proc' = [proc EXCEPT ![p] = Throw(p, "SmsFailed")]
  /\ UNCHANGED <<aux, quantity, sold, soldOut, payments, tickets, gwState, nextRef, calls, faults>>

\* the SMS block: building ticketData reads the undeclared name ticketType, so
\* the block throws before the notification service is called; its own catch
\* logs the error and the request goes on
CSms(p) ==
  /\ proc[p].pc = "c_sms"
  /\ proc' = [proc EXCEPT ![p] = [proc[p] EXCEPT !.pc = "c_final", !.cause = "SmsFailed"]]
  /\ UNCHANGED <<aux, quantity, sold, soldOut, payments, tickets, gwState, nextRef, calls, faults>>

\* Payment.findById(..).populate(..), res.json
CFinal(p) ==
  /\ proc[p].pc = "c_final"
  /\ proc' = [proc EXCEPT ![p] = Respond(p, "ok")]
  /\ UNCHANGED <<aux, quantity, sold, soldOut, payments, tickets, gwState, nextRef, calls, faults>>

\* ---- verifyPayment: the catch block --------------------------------------------

\* does a Payment / do Tickets with reference = req.body.reference exist
BodyReferenceMatches(p) == proc[p].kind = "pay"

\* Payment.findOneAndUpdate({reference}, {$set: {status: "failed"}})
ErrPayment(p) ==
  /\ proc[p].pc = "e1"
  /\ payments' = IF BodyReferenceMatches(p)
                   THEN [payments EXCEPT ![proc[p].n].status = "failed"]
                   ELSE payments
  /\ proc' = [proc EXCEPT ![p] = Goto(p, "e2")]
  /\ UNCHANGED <<aux, quantity, sold, soldOut, tickets, gwState, nextRef, calls, faults>>

\* Ticket.updateMany({paymentReference: reference}, ..failed); res.status(500)
ErrTickets(p) ==
  /\ proc[p].pc = "e2"
  /\ tickets' = IF BodyReferenceMatches(p)
                  THEN [tickets EXCEPT ![proc[p].n] = FailTickets(@)]
                  ELSE tickets
  /\ proc' = [proc EXCEPT ![p] = Respond(p, "error")]
  /\ UNCHANGED <<aux, quantity, sold, soldOut, payments, gwState, nextRef, calls, faults>>

\* the awaited operation of the current step rejects (database, gateway or QR
\* library error) without taking effect: inside the try block the exception
\* reaches the catch block, inside the catch block and inside the SMS block it
\* is logged and swallowed
Fault(p) ==
  /\ Running(p)
  /\ faults < MaxFaults
  /\ faults' = faults + 1
  /\ proc' = [proc EXCEPT ![p] =
                IF proc[p].pc \in {"e1", "e2"}
                  THEN [Respond(p, "error") EXCEPT !.cause = "StatusUpdateFailed"]
                ELSE IF proc[p].pc = "c_sms"
                  THEN [proc[p] EXCEPT !.pc = "c_final", !.cause = "SmsFailed"]
                ELSE IF proc[p].pc \in {"c_qrfind", "c_qrsave"} THEN Throw(p, "QrFailed")
                ELSE Throw(p, "Fault")]
  /\ UNCHANGED <<aux, quantity, sold, soldOut, payments, tickets, gwState, nextRef, calls>>

\* the steps of verifyPayment that a request can take when no other request
\* overlaps it: updatedEvent is then never saved, because the pre-save hook of
\* event.save() has already written soldOut
VerifyAlone(p) ==
  \/ SRetrieve(p) \/ SFind(p) \/ SStatus(p)
  \/ WFind(p) \/ WGet(p) \/ WRefetch(p)
  \/ UpdOk(p) \/ UpdFail(p) \/ UpdFailTickets(p)
  \/ CSave(p) \/ CFind(p) \/ CTicketSave(p) \/ CQrFind(p) \/ CQrSave(p)
  \/ CEventFind(p) \/ CEventSave(p) \/ CEventRefind(p) \/ CSms(p) \/ CFinal(p)
  \/ ErrPayment(p) \/ ErrTickets(p)

Verify(p) == VerifyAlone(p) \/ CEventSoldOut(p)

\* concurrent requests, every awaited operation succeeds
Next ==
  \/ \E t \in TierNames, q \in 1..MaxQty, g \in Gateways : Initiate(t, q, g)
  \/ \E r \in Refs, s \in {"paid", "dead"} : GatewaySettles(r, s)
  \/ \E p \in Procs, g \in Gateways, k \in {"pay", "cs"}, n \in Refs : Start(p, g, k, n)
  \/ \E p \in Procs : Verify(p)

Spec == Init /\ [][Next]_vars

\* one request at a time, awaited operations may reject
NextFault ==
  \/ \E t \in TierNames, q \in 1..MaxQty, g \in Gateways : Initiate(t, q, g)
  \/ \E r \in Refs, s \in {"paid", "dead"} : GatewaySettles(r, s)
  \/ \E g \in Gateways, k \in {"pay", "cs"}, n \in Refs :
        (\A q \in Procs : ~Running(q)) /\ Start("A", g, k, n)
  \/ VerifyAlone("A")
  \/ Fault("A")

SpecFault == Init /\ [][NextFault]_vars

\* ---- initiatePayment, await by await ----------------------------------------------

IRunning == ireq.pc \notin {"idle", "done"}

\* an exception reaches the catch block of initiatePayment
IThrow(cause) == [ireq EXCEPT !.pc = "i_del_pay", !.cause = cause]

IRespond(r) == [ireq EXCEPT !.pc = "done", !.resp = r]

\* POST /:eventId/pay: Event.findById, the availability checks (a rejected
\* request returns 400 before anything is created), mainReference
IStart(t, q, g) ==
  /\ ~IRunning
  /\ nextRef <= MaxPayments
  /\ LET c == InitiateCheck(t, q)
     IN  IF c = "ok"
           THEN /\ ireq' = [IdleInit EXCEPT !.pc = "i_create", !.event = "e1", !.ref = nextRef,
                                            !.tier = t, !.qty = q, !.gateway = g]
                /\ nextRef' = nextRef + 1
           ELSE /\ ireq' = [IdleInit EXCEPT !.pc = "done", !.event = "e1", !.resp = "rejected",
                                            !.cause = c, !.tier = t, !.qty = q, !.gateway = g]
                /\ nextRef' = nextRef
  /\ UNCHANGED <<fx, gwLog, wave, ticketOps, quantity, sold, soldOut, payments, tickets, gwState, proc, calls, faults>>

\* Payment.create({reference: mainReference, status: "pending", ..}); the
\* unique index on reference rejects a reference that a Payment already has
ICreate ==
  /\ ireq.pc = "i_create"
  /\ IF payments[ireq.ref] # NoPayment
       THEN /\ payments' = payments
            /\ ireq' = IThrow("DuplicateReference")
       ELSE /\ payments' = [payments EXCEPT ![ireq.ref] =
                              [status |-> PAYMENT_STATUS.PENDING, gateway |-> ireq.gateway,
                               tier |-> ireq.tier, qty |-> ireq.qty, tickets |-> <<>>]]
            /\ ireq' = [ireq EXCEPT !.pc = "i_ticket", !.i = 1]
  /\ UNCHANGED <<fx, gwLog, wave, ticketOps, quantity, sold, soldOut, tickets, gwState, nextRef, proc, calls, faults>>

\* createTickets: new Ticket({.. status: "pending"}); await ticket.save()
ITicket ==
  /\ ireq.pc = "i_ticket"
  /\ tickets' = [tickets EXCEPT ![ireq.ref] = Append(@, [status |-> "pending", qr |-> 0,
                                                    reference |-> TicketRef(ireq.ref, ireq.i - 1),
                                                    scanned |-> FALSE])]
  /\ ireq' = IF ireq.i < ireq.qty
               THEN [ireq EXCEPT !.i = @ + 1]
               ELSE [ireq EXCEPT !.pc = "i_psave"]
  /\ UNCHANGED <<fx, gwLog, wave, ticketOps, quantity, sold, soldOut, payments, gwState, nextRef, proc, calls, faults>>

\* payment.tickets = createdTickets; await payment.save()
IPaySave ==
  /\ ireq.pc = "i_psave"
  /\ payments' = [payments EXCEPT ![ireq.ref].tickets = TicketRefs(ireq.ref, ireq.qty)]
  /\ ireq' = [ireq EXCEPT !.pc = "i_gateway"]
  /\ UNCHANGED <<fx, gwLog, wave, ticketOps, quantity, sold, soldOut, tickets, gwState, nextRef, proc, calls, faults>>

\* createWaveCheckout: axios.post(/checkout/sessions);
\* createStripeSession: stripe.checkout.sessions.create
IGateway ==
  /\ ireq.pc = "i_gateway"
  /\ gwState' = [gwState EXCEPT ![ireq.ref] = "open"]
  /\ gwLog' = Received(gwLog, ireq.ref, IdempotencyKey(ireq.gateway, ireq.ref))
  /\ ireq' = [ireq EXCEPT !.pc = "i_gwsave"]
  /\ UNCHANGED <<fx, wave, ticketOps, quantity, sold, soldOut, payments, tickets, nextRef, proc, calls, faults>>

\* the same session-creation request reaches the gateway once more (a retry
\* below the handler: HTTP client, proxy) before the handler goes on
IGatewayRepeat ==
  /\ ireq.pc = "i_gwsave"
  /\ Len(gwLog[ireq.ref].keys) < MaxSends
  /\ gwLog' = Received(gwLog, ireq.ref, IdempotencyKey(ireq.gateway, ireq.ref))
  /\ UNCHANGED <<fx, wave, ticketOps, ireq, quantity, sold, soldOut, payments, tickets, gwState,
                 nextRef, proc, calls, faults>>

\* Payment.findOneAndUpdate({reference}, {session and conversion fields});
\* res.json({id, gateway, reference})
IGatewaySave ==
  /\ ireq.pc = "i_gwsave"
  /\ ireq' = IRespond("ok")
  /\ UNCHANGED <<fx, gwLog, wave, ticketOps, quantity, sold, soldOut, payments, tickets, gwState, nextRef, proc, calls, faults>>

\* mutant: the catch block leaves the payment in place
IDeletePaymentSkipped ==
  /\ ireq.pc = "i_del_pay"
  /\ ireq' = [ireq EXCEPT !.pc = "i_del_tix"]
  /\ UNCHANGED <<fx, gwLog, wave, ticketOps, quantity, sold, soldOut, payments, tickets, gwState, nextRef, proc, calls, faults>>

\* catch: Payment.deleteOne({reference: mainReference})
IDeletePayment ==
  /\ ireq.pc = "i_del_pay"
  /\ payments' = [payments EXCEPT ![ireq.ref] = NoPayment]
  /\ ireq' = [ireq EXCEPT !.pc = "i_del_tix"]
  /\ UNCHANGED <<fx, gwLog, wave, ticketOps, quantity, sold, soldOut, tickets, gwState, nextRef, proc, calls, faults>>

\* catch: Ticket.deleteMany({paymentReference: mainReference}); res.status(500)
IDeleteTickets ==
  /\ ireq.pc = "i_del_tix"
  /\ tickets' = [tickets EXCEPT ![ireq.ref] = <<>>]
  /\ ireq' = IRespond("error")
  /\ UNCHANGED <<fx, gwLog, wave, ticketOps, quantity, sold, soldOut, payments, gwState, nextRef, proc, calls, faults>>

\* the awaited operation of the current step rejects without taking effect:
\* in the try block the exception reaches the catch block; a rejected delete
\* of the catch block is swallowed by .catch(console.error)
IFault ==
  /\ IRunning
  /\ faults < MaxFaults
  /\ faults' = faults + 1
  /\ ireq' = IF ireq.pc = "i_del_pay"
               THEN [ireq EXCEPT !.pc = "i_del_tix", !.cause = "CompensationFailed"]
             ELSE IF ireq.pc = "i_del_tix"
               THEN [IRespond("error") EXCEPT !.cause = "CompensationFailed"]
             ELSE IThrow("Fault")
  /\ UNCHANGED <<fx, gwLog, wave, ticketOps, quantity, sold, soldOut, payments, tickets, gwState, nextRef, proc, calls>>

\* initiate requests one after the other, awaited operations may reject
NextInitiate ==
  \/ \E t \in TierNames, q \in 1..MaxQty, g \in Gateways : IStart(t, q, g)
  \/ ICreate \/ ITicket \/ IPaySave \/ IGateway \/ IGatewaySave
  \/ IDeletePayment \/ IDeleteTickets
  \/ IFault

SpecInitiate == Init /\ [][NextInitiate]_vars

\* initiate requests one after the other, the gateway may receive a
\* session-creation request more than once
NextGateway ==
  \/ \E t \in TierNames, q \in 1..MaxQty, g \in Gateways : IStart(t, q, g)
  \/ ICreate \/ ITicket \/ IPaySave \/ IGateway \/ IGatewayRepeat \/ IGatewaySave

SpecGateway == Init /\ [][NextGateway]_vars

\* ---- initiatePayment: a reference drawn twice ------------------------------------

\* `PAY-${Date.now()}-${Math.floor(Math.random() * 1000)}` can give the
\* reference r of the Payment of an earlier request: same millisecond, same
\* suffix
ReferenceDrawn(r) == r < nextRef /\ payments[r] # NoPayment

\* POST /:eventId/pay whose mainReference is the reference r of an earlier
\* request
IStartCollide(t, q, g, r) ==
  /\ ~IRunning
  /\ ReferenceDrawn(r)
  /\ InitiateCheck(t, q) = "ok"
  /\ ireq' = [IdleInit EXCEPT !.pc = "i_create", !.event = "e1", !.ref = r,
                              !.tier = t, !.qty = q, !.gateway = g]
  /\ UNCHANGED <<fx, gwLog, wave, ticketOps, quantity, sold, soldOut, payments, tickets, gwState,
                 nextRef, proc, calls, faults>>

\* initiate requests one after the other, every awaited operation of the
\* database and the gateway works; references may repeat
NextCollide ==
  \/ \E t \in TierNames, q \in 1..MaxQty, g \in Gateways : IStart(t, q, g)
  \/ \E t \in TierNames, q \in 1..MaxQty, g \in Gateways, r \in Refs : IStartCollide(t, q, g, r)
  \/ ICreate \/ ITicket \/ IPaySave \/ IGateway \/ IGatewaySave
  \/ IDeletePayment \/ IDeleteTickets

SpecCollide == Init /\ [][NextCollide]_vars

\* ---- buying: initiatePayment and verifyPayment together -------------------------

\* POST /:eventId/pay with the id of no event: Event.findById gives null, 404
IStartNoEvent(t, q, g) ==
  /\ ~IRunning
  /\ ireq' = [IdleInit EXCEPT !.pc = "done", !.event = "e0", !.resp = "rejected",
                              !.cause = "EventNotFound", !.tier = t, !.qty = q, !.gateway = g]
  /\ UNCHANGED <<fx, gwLog, wave, ticketOps, quantity, sold, soldOut, payments, tickets, gwState, nextRef, proc,
                 calls, faults>>

\* the buyer asks for verification once the checkout session exists
StartBuy(g, k, n) ==
  /\ \A q \in Procs : ~Running(q)
  /\ gwState[n] # "none"
  /\ Start("A", g, k, n)

\* initiate requests await by await, verify requests one at a time, every
\* awaited operation succeeds
NextBuy ==
  \/ \E t \in TierNames, q \in 1..MaxQty, g \in Gateways : IStart(t, q, g)
  \/ \E t \in TierNames, q \in 1..MaxQty, g \in Gateways : IStartNoEvent(t, q, g)
  \/ ICreate \/ ITicket \/ IPaySave \/ IGateway \/ IGatewaySave
  \/ \E r \in Refs, s \in {"paid", "dead"} : GatewaySettles(r, s)
  \/ \E g \in Gateways, k \in {"pay", "cs"}, n \in Refs : StartBuy(g, k, n)
  \/ VerifyAlone("A")

SpecBuy == Init /\ [][NextBuy]_vars


\* ---- polling a Wave payment ----------------------------------------------------------

\* the steps of verifyPayment for a request with gateway "wave"
VerifyWave(p) ==
  \/ WFind(p) \/ WGet(p) \/ WRefetch(p)
  \/ UpdOk(p) \/ UpdFail(p) \/ UpdFailTickets(p)
  \/ CSave(p) \/ CFind(p) \/ CTicketSave(p) \/ CQrFind(p) \/ CQrSave(p)
  \/ CEventFind(p) \/ CEventSave(p) \/ CEventRefind(p) \/ CSms(p) \/ CFinal(p)
  \/ ErrPayment(p) \/ ErrTickets(p)

\* the caller polls: POST /verify-payment {reference: n, gateway: "wave"},
\* again and again until a request is answered with success or with an error
PollStart(n) ==
  /\ Quiet
  /\ n < nextRef
  /\ proc["A"].resp \notin {"ok", "error"}
  /\ proc' = [proc EXCEPT !["A"] =
                [IdleProc EXCEPT !.pc = "w_find", !.gateway = "wave", !.kind = "pay", !.n = n,
                                 !.entry = EntryStatus(n)]]
  /\ UNCHANGED <<aux, quantity, sold, soldOut, payments, tickets, gwState, nextRef, calls, faults>>

\* one purchase, the gateway settles it or not, the caller polls
NextPoll ==
  \/ \E q \in 1..MaxQty, g \in Gateways : nextRef = 1 /\ Initiate("VIP", q, g)
  \/ \E r \in Refs, st \in {"paid", "dead"} : GatewaySettles(r, st)
  \/ PollStart(1)
  \/ VerifyWave("A")

\* the caller keeps polling and every request that is being served is served
\* to its end
SpecPoll == Init /\ [][NextPoll]_vars /\ WF_vars(PollStart(1)) /\ WF_vars(VerifyWave("A"))

\* ---- transferTicket ------------------------------------------------------------------

\* what the ticket operations never touch
payFlow == <<quantity, sold, soldOut, payments, tickets, gwState, nextRef, proc, calls, ireq, wave,
            gwLog, fx>>

TRunning(s) == treq[s].pc \notin {"idle", "done"}

TForget(s) == IF treq[s].pc = "done" THEN IdleReq ELSE treq[s]

\* request slots are interchangeable: a new request takes the first free one
FreeTSlot == IF ~TRunning(1) THEN 1 ELSE IF ~TRunning(2) THEN 2 ELSE 0

\* a new request enters slot s; the slots whose response has been delivered
\* are forgotten
TBegin(s, req) ==
  /\ s = FreeTSlot
  /\ ops < MaxOps
  /\ ops' = ops + 1
  /\ treq' = [q \in TSlots |-> IF q = s THEN req ELSE TForget(q)]

TFail(s, cause) == [treq[s] EXCEPT !.pc = "done", !.resp = "error", !.cause = cause]

TOk(s) == [treq[s] EXCEPT !.pc = "done", !.resp = "ok"]

\* a property of a document that the schema may not have
Field(r, f) == IF f \in DOMAIN r THEN r[f] ELSE "undefined"

\* User.findOne({email | mobileNumber: recipientValue})
RecipientUser(v) == IF v \in Users THEN v ELSE "null"

\* the object transferTicket pushes onto ticket.transferHistory
TransferRecord(from, v, ru, t) ==
  [from |-> from, to |-> [value |-> v, user |-> ru], transferredAt |-> t,
   status |-> "pending", expiresAt |-> t + TransferWindow]

\* mutant: the schema keeps every property of a pushed element
CastTransferRecordLoose(rec) == rec

\* ticketSchema.transferHistory: the paths a pushed element is cast to
\* (strict schema: from, to.type, to.value, to.name, transferredAt)
CastTransferRecord(rec) ==
  [from |-> rec.from, to |-> [value |-> rec.to.value], transferredAt |-> rec.transferredAt]

\* document.save(): a path is written when its value differs from the loaded one
SavePath(stored, loaded, new) == IF new # loaded THEN new ELSE stored

\* POST /tickets/:ticketId/transfer {recipientType, recipientValue, recipientName}
TransferStart(s, u, v) ==
  /\ TBegin(s, [IdleReq EXCEPT !.op = "transfer", !.pc = "t_find", !.caller = u, !.to = v])
  /\ UNCHANGED <<payFlow, faults, now, tkt, userTickets, qr>>

\* Ticket.findById and the owner / status checks
TransferFind(s) ==
  /\ treq[s].pc = "t_find"
  /\ treq' = [treq EXCEPT ![s] =
                IF tkt.user = "null" THEN TFail(s, "TypeError")
                ELSE IF tkt.user # treq[s].caller THEN TFail(s, "NotOwner")
                ELSE IF tkt.status # "success" THEN TFail(s, "TicketNotPaid")
                ELSE [treq[s] EXCEPT !.pc = "t_lookup", !.doc = tkt]]
  /\ UNCHANGED <<payFlow, faults, now, tkt, userTickets, ops, qr>>

\* "Find recipient user if they exist"
TransferLookup(s) ==
  /\ treq[s].pc = "t_lookup"
  /\ treq' = [treq EXCEPT ![s] =
                [treq[s] EXCEPT !.pc = "t_commit", !.recipientUser = RecipientUser(treq[s].to)]]
  /\ UNCHANGED <<payFlow, faults, now, tkt, userTickets, ops, qr>>

\* User.findByIdAndUpdate(fromUserId, {$pull: {tickets: ticketId}})
PullList(L, r) == L \ {r.caller}

\* User.findByIdAndUpdate(recipientUser._id, {$addToSet: {tickets: ticketId}})
AddList(L, r) == L \cup (IF r.recipientUser # "null" THEN {r.recipientUser} ELSE {})

\* ticket.user, the pushed history element, recipientInfo, transferred; save
SavedTicket(d, r, t) ==
  [d EXCEPT !.user = SavePath(@, r.doc.user, r.recipientUser),
            !.transferHistory =
               Append(@, CastTransferRecord(TransferRecord(r.caller, r.to, r.recipientUser, t))),
            !.recipientInfo = SavePath(@, r.doc.recipientInfo, r.to),
            !.transferred = SavePath(@, r.doc.transferred, TRUE)]

\* the transaction: $pull, $addToSet, ticket.save({session}), commitTransaction
TransferCommit(s) ==
  /\ treq[s].pc = "t_commit"
  /\ userTickets' = AddList(PullList(userTickets, treq[s]), treq[s])
  /\ tkt' = SavedTicket(tkt, treq[s], now)
  /\ treq' = [treq EXCEPT ![s] = [treq[s] EXCEPT !.pc = "t_notify"]]
  /\ UNCHANGED <<payFlow, faults, now, ops, qr>>

\* the controller: sendTicketTransferSMS, Ticket.findById and
\* sendTransferConfirmationSMS, res.json
TransferNotify(s) ==
  /\ treq[s].pc = "t_notify"
  /\ treq' = [treq EXCEPT ![s] = TOk(s)]
  /\ UNCHANGED <<payFlow, faults, now, tkt, userTickets, ops, qr>>

\* the writes of the transaction, in the order of the code, and the commit
TxnSteps == <<"pull", "add", "save", "commit">>

\* mutant: the $pull is sent without the session
InSessionButPull(w) == w # "pull"

\* is write w of transferTicket sent with {session}
InSession(w) == w \in {"pull", "add", "save"}

\* what is stored when the transaction fails at step k and is aborted: the
\* writes before k that did not carry the session
AbortedLists(L, r, k) ==
  LET a == IF k > 1 /\ ~InSession("pull") THEN PullList(L, r) ELSE L
  IN  IF k > 2 /\ ~InSession("add") THEN AddList(a, r) ELSE a

AbortedTicket(d, r, k, t) == IF k > 3 /\ ~InSession("save") THEN SavedTicket(d, r, t) ELSE d

\* an awaited operation of the transfer request rejects: before the
\* transaction the error reaches the controller's catch; inside it (at step k)
\* the service aborts the transaction and rethrows; in the SMS blocks it is
\* logged and swallowed
TFault(s, k) ==
  /\ TRunning(s)
  /\ treq[s].op = "transfer"
  /\ faults < MaxFaults
  /\ faults' = faults + 1
  /\ treq' = [treq EXCEPT ![s] =
                IF treq[s].pc = "t_notify" THEN [TOk(s) EXCEPT !.cause = "SmsFailed"]
                ELSE IF treq[s].pc = "t_commit" THEN TFail(s, "TransactionAborted")
                ELSE TFail(s, "Fault")]
  /\ IF treq[s].pc = "t_commit"
       THEN /\ userTickets' = AbortedLists(userTickets, treq[s], k)
            /\ tkt' = AbortedTicket(tkt, treq[s], k, now)
       ELSE UNCHANGED <<tkt, userTickets>>
  /\ UNCHANGED <<payFlow, now, ops, qr>>

\* ---- cancelTransfer ------------------------------------------------------------------

\* mutant: the status of the latest transfer is not looked at
HasPendingTransferAlways(h) == TRUE

\* latestTransfer && latestTransfer.status === 'pending'
HasPendingTransfer(h) == Len(h) > 0 /\ Field(h[Len(h)], "status") = "pending"

\* the ticket after the transaction of cancelTransfer by user u at time t
CancelledTicket(d, u, t) ==
  LET n == Len(d.transferHistory)
      latest == [status |-> "cancelled", cancelledAt |-> t, cancelledBy |-> u]
                  @@ d.transferHistory[n]
  IN  [d EXCEPT !.transferHistory[n] = CastTransferRecord(latest),
                !.user = u,
                !.transferred = FALSE,
                !.recipientInfo = "null"]

\* the users' ticket arrays after the transaction of cancelTransfer
CancelledLists(d, u) ==
  LET toUser == Field(d.transferHistory[Len(d.transferHistory)].to, "user")
  IN  (userTickets \ (IF toUser \in Users THEN {toUser} ELSE {})) \cup {u}

\* POST /tickets/:ticketId/cancel-transfer: Ticket.findById, the checks, the
\* transaction, res.json
CancelTransfer(s, u) ==
  /\ LET me == [IdleReq EXCEPT !.op = "cancel", !.pc = "done", !.caller = u, !.doc = tkt]
         verdict == IF tkt.user # u THEN "NotPermitted"
                    ELSE IF ~HasPendingTransfer(tkt.transferHistory) THEN "NoPendingTransfer"
                    ELSE IF Len(tkt.transferHistory) = 0 THEN "TypeError"
                    ELSE "ok"
     IN  /\ TBegin(s, [me EXCEPT !.resp = IF verdict = "ok" THEN "ok" ELSE "error",
                                 !.cause = IF verdict = "ok" THEN "none" ELSE verdict])
         /\ tkt' = IF verdict = "ok" THEN CancelledTicket(tkt, u, now) ELSE tkt
         /\ userTickets' = IF verdict = "ok" THEN CancelledLists(tkt, u) ELSE userTickets
  /\ UNCHANGED <<payFlow, faults, now, qr>>

\* ---- scanTicket ------------------------------------------------------------------------

\* PUT /tickets/:ticketId/scan, by an admin
ScanStart(s, a) ==
  /\ TBegin(s, [IdleReq EXCEPT !.op = "scan", !.pc = "sc_find", !.caller = a])
  /\ UNCHANGED <<payFlow, faults, now, tkt, userTickets, qr>>

\* Ticket.findById(ticketId).populate("event") and the checks
ScanFind(s) ==
  /\ treq[s].pc = "sc_find"
  /\ treq' = [treq EXCEPT ![s] =
                IF tkt.status # "success" THEN TFail(s, "NotPaid")
                ELSE IF tkt.scanned = TRUE THEN TFail(s, "AlreadyScanned")
                ELSE [treq[s] EXCEPT !.pc = "sc_save", !.doc = tkt]]
  /\ UNCHANGED <<payFlow, faults, now, tkt, userTickets, ops, qr>>

\* ticket.scanned = true; scannedAt = new Date(); scannedBy = req.user.id; save
ScanSave(s) ==
  /\ treq[s].pc = "sc_save"
  /\ tkt' = [tkt EXCEPT !.scanned = SavePath(@, treq[s].doc.scanned, TRUE),
                        !.scannedAt = now,
                        !.scannedBy = treq[s].caller]
  /\ treq' = [treq EXCEPT ![s] = TOk(s)]
  /\ UNCHANGED <<payFlow, faults, now, userTickets, ops, qr>>

\* time passes
Tick ==
  /\ now < MaxTime
  /\ now' = now + 1
  /\ UNCHANGED <<payFlow, faults, tkt, userTickets, treq, ops, qr>>

\* the statuses the payment flow gives a ticket
TicketStatuses == {"pending", "success", "failed"}

\* a ticket of buyer "A" as initiate and verify leave it, for an event whose
\* date is now or lies at the end of the clock
InitTicket ==
  /\ PayInit
  /\ quantity = [t \in TierNames |-> IF t = "VIP" THEN 2 ELSE 1]
  /\ now = 0
  /\ tkt \in {NewTicket(st, d) : st \in TicketStatuses, d \in {0, MaxTime}}
  /\ userTickets = {}
  /\ treq = [s \in TSlots |-> IdleReq]
  /\ ops = 0
  /\ qr = NoQr

NextTicket ==
  \/ \E s \in TSlots, u \in Users, v \in Contacts : TransferStart(s, u, v)
  \/ \E s \in TSlots : TransferFind(s) \/ TransferLookup(s) \/ TransferCommit(s)
  \/ \E s \in TSlots : TransferNotify(s)
  \/ \E s \in TSlots, u \in Users : CancelTransfer(s, u)
  \/ \E s \in TSlots, a \in Admins : ScanStart(s, a)
  \/ \E s \in TSlots : ScanFind(s) \/ ScanSave(s)
  \/ Tick

SpecTicket == InitTicket /\ [][NextTicket]_vars

\* transfer and cancel requests, awaited operations may reject
NextTicketFault ==
  \/ \E s \in TSlots, u \in Users, v \in Contacts : TransferStart(s, u, v)
  \/ \E s \in TSlots : TransferFind(s) \/ TransferLookup(s) \/ TransferCommit(s)
  \/ \E s \in TSlots : TransferNotify(s)
  \/ \E s \in TSlots, u \in Users : CancelTransfer(s, u)
  \/ \E s \in TSlots, k \in 1..Len(TxnSteps) : TFault(s, k)

SpecTicketFault == InitTicket /\ [][NextTicketFault]_vars

\* a buyer's requests, one at a time: the purchase of one VIP ticket, its
\* verification, transfers of a paid ticket; the notification service may fail
InitNotify == InitTicket /\ tkt = NewTicket("success", MaxTime)

NobodyServed == (\A q \in Procs : ~Running(q)) /\ (\A s \in TSlots : ~TRunning(s))

NextNotify ==
  \/ \E g \in Gateways : nextRef = 1 /\ Initiate("VIP", 1, g)
  \/ \E r \in Refs, s \in {"paid", "dead"} : GatewaySettles(r, s)
  \/ \E g \in Gateways, k \in {"pay", "cs"}, n \in Refs : NobodyServed /\ Start("A", g, k, n)
  \/ VerifyAlone("A")
  \/ \E u \in Users, v \in Contacts : NobodyServed /\ TransferStart(1, u, v)
  \/ TransferFind(1) \/ TransferLookup(1) \/ TransferCommit(1) \/ TransferNotify(1)
  \/ treq[1].pc = "t_notify" /\ TFault(1, 1)

SpecNotify == InitNotify /\ [][NextNotify]_vars

\* ---- scanTicket on the tickets of a payment -------------------------------------------

\* PUT /tickets/:ticketId/scan for ticket i of payment r, by an admin
PaidScanStart(s, a, r, i) ==
  /\ r < nextRef
  /\ i \in 1..Len(tickets[r])
  /\ TBegin(s, [IdleReq EXCEPT !.op = "scan", !.pc = "ps_find", !.caller = a, !.n = r, !.i = i])
  /\ UNCHANGED <<payFlow, faults, now, tkt, userTickets, qr>>

\* Ticket.findById(ticketId).populate("event") and the checks
PaidScanFind(s) ==
  /\ treq[s].pc = "ps_find"
  /\ LET t == tickets[treq[s].n][treq[s].i]
     IN  treq' = [treq EXCEPT ![s] =
                    IF t.status # "success" THEN TFail(s, "NotPaid")
                    ELSE IF t.scanned = TRUE THEN TFail(s, "AlreadyScanned")
                    ELSE [treq[s] EXCEPT !.pc = "ps_save"]]
  /\ UNCHANGED <<payFlow, faults, now, tkt, userTickets, ops, qr>>

\* ticket.scanned = true; scannedAt; scannedBy; save (the paths written are
\* those three, never status)
PaidScanSave(s) ==
  /\ treq[s].pc = "ps_save"
  /\ tickets' = [tickets EXCEPT ![treq[s].n][treq[s].i].scanned = TRUE]
  /\ treq' = [treq EXCEPT ![s] = TOk(s)]
  /\ UNCHANGED <<quantity, sold, soldOut, payments, gwState, nextRef, proc, calls, ireq, wave,
                 gwLog, fx, faults, now, tkt, userTickets, ops, qr>>

\* one purchase of VIP tickets; verify requests one at a time and scan requests
\* one at a time, a verify and a scan may overlap
NextScan ==
  \/ \E q \in 1..MaxQty, g \in Gateways : nextRef = 1 /\ Initiate("VIP", q, g)
  \/ \E r \in Refs, st \in {"paid", "dead"} : GatewaySettles(r, st)
  \/ \E g \in Gateways, k \in {"pay", "cs"}, n \in Refs : Quiet /\ Start("A", g, k, n)
  \/ VerifyAlone("A")
  \/ \E a \in Admins, r \in Refs, i \in 1..MaxQty :
        (\A s \in TSlots : ~TRunning(s)) /\ PaidScanStart(1, a, r, i)
  \/ PaidScanFind(1) \/ PaidScanSave(1)

SpecScan == Init /\ [][NextScan]_vars

\* ---- qrCodeService -------------------------------------------------------------------

\* 24 * 60 * 60 * 1000 ms, in clock units
QrMaxAge == 2

\* ticket._id and ticket.reference as character strings; "a" + "bc" and
\* "ab" + "c" are the same string
QrTicketIds == {<<"a">>, <<"a", "b">>}

QrReferences == {<<"b", "c">>, <<"c">>}

QrEventIds == {"e1", "e2"}

\* process.env.QR_SECRET_KEY
QrSecret == <<"k">>

\* crypto.createHash('sha256').update(m).digest('hex'): distinct messages have
\* distinct digests
Sha256(m) == <<"#">> \o m

\* the hash of a payload: `${ticketId}${reference}${QR_SECRET_KEY}`
QrHash(id, ref) == Sha256(id \o ref \o QrSecret)

\* generateTicketQRCode: the payload of ticket (id, ref, ev) at time t
QrPayload(id, ref, ev, t) ==
  [ticketId |-> id, reference |-> ref, eventId |-> ev, timestamp |-> t, hash |-> QrHash(id, ref)]

\* JSON.stringify(payload) and JSON.parse(qrData)
Stringify(pl) == <<pl.ticketId, pl.reference, pl.eventId, pl.timestamp, pl.hash>>

Parse(d) == [ticketId |-> d[1], reference |-> d[2], eventId |-> d[3], timestamp |-> d[4],
             hash |-> d[5]]

\* every payload a holder of QR codes can present
QrPayloads ==
  [ticketId : QrTicketIds, reference : QrReferences, eventId : QrEventIds,
   timestamp : 0..MaxTime, hash : {QrHash(i, r) : i \in QrTicketIds, r \in QrReferences}]

\* mutant: a QR code never expires
QrNeverExpired(age) == FALSE

\* qrAge > 24 * 60 * 60 * 1000
QrExpired(age) == age > QrMaxAge

\* verifyQRCode(qrData) at time t: the payload, or "rejected"
verifyQRCode(d, t) ==
  LET pl == Parse(d)
  IN  IF pl.hash # QrHash(pl.ticketId, pl.reference) THEN "rejected"
      ELSE IF QrExpired(t - pl.timestamp) THEN "rejected"
      ELSE "accepted"

\* generateTicketQRCode(ticket) for a ticket of event "e1"
QrGenerate(id, ref) ==
  /\ qr.made = <<>>
  /\ LET pl == QrPayload(id, ref, "e1", now)
     IN  qr' = [made |-> pl, shown |-> Stringify(pl), verdict |-> "none"]
  /\ UNCHANGED <<payFlow, faults, now, tkt, userTickets, treq, ops>>

\* the holder presents another payload than the generated one
QrTamper(pl) ==
  /\ qr.made # <<>>
  /\ pl # qr.made
  /\ qr' = [qr EXCEPT !.shown = Stringify(pl), !.verdict = "none"]
  /\ UNCHANGED <<payFlow, faults, now, tkt, userTickets, treq, ops>>

\* verifyQRCode(the presented data)
QrVerify ==
  /\ qr.made # <<>>
  /\ qr' = [qr EXCEPT !.verdict = verifyQRCode(qr.shown, now)]
  /\ UNCHANGED <<payFlow, faults, now, tkt, userTickets, treq, ops>>

InitQr ==
  /\ PayInit
  /\ quantity = [t \in TierNames |-> IF t = "VIP" THEN 2 ELSE 1]
  /\ TicketOpsIdle

NextQr ==
  \/ \E id \in QrTicketIds, ref \in QrReferences : QrGenerate(id, ref)
  \/ \E pl \in QrPayloads : QrTamper(pl)
  \/ QrVerify
  \/ Tick

SpecQr == InitQr /\ [][NextQr]_vars

\* ---- properties ------------------------------------------------------------------

\* the step is taken by the request in slot p
StepOf(p) == Running(p) /\ proc'[p] # proc[p]

TicketsAll(r, st) == \A i \in 1..Len(tickets[r]) : tickets[r][i].status = st


\* C1: in every reachable state every tier of the event has sold <= quantity
C1_NoOversell == \A t \in DOMAIN quantity : sold[t] <= quantity[t]

\* the request names the payment the way its own gateway expects: a Wave
\* payment by its reference, a Stripe payment by its checkout session id
Matched(p) ==
  /\ proc[p].gateway = payments[proc[p].n].gateway
  /\ proc[p].kind = IF proc[p].gateway = "stripe" THEN "cs" ELSE "pay"

\* C2: a verify request that arrives when the payment is already SUCCESS (and
\* no other verify is being served) changes no tier's sold count, no ticket's
\* status or QR code and not the payment, and answers with the stored result
C2_VerifyIdempotent ==
  [][\A p \in Procs :
       (StepOf(p) /\ proc[p].entry = "success" /\ Matched(p))
         => /\ sold' = sold
            /\ tickets' = tickets
            /\ payments' = payments
            /\ proc'[p].pc = "done" => proc'[p].resp = "ok"]_vars

\* C3: of two payments for one tier that each passed the availability check
\* but together exceed the tier's quantity, at most one is ever SUCCESS once
\* the verify requests have been answered: the other one failed closed
C3_FailClosedAtVerify ==
  \A r1, r2 \in Refs :
    ( /\ r1 < r2
      /\ payments[r1].status = "success"
      /\ payments[r2].status = "success"
      /\ payments[r1].tier = payments[r2].tier
      /\ Quiet )
      => payments[r1].qty + payments[r2].qty <= quantity[payments[r1].tier]

StatusTransitions ==
  { <<"none", "pending">>, <<"pending", "success">>, <<"pending", "failed">>,
    <<"success", "refunded">> }

\* C4: a payment's status changes only pending->success, pending->failed or
\* success->refunded (after its creation as pending)
C4_StatusTransitions ==
  [][\A r \in Refs :
       payments'[r].status # payments[r].status
         => <<payments[r].status, payments'[r].status>> \in StatusTransitions]_vars

\* no verify request that names payment r (by reference or by session id) is
\* being served
NoVerifyOn(r) == \A p \in Procs : Running(p) => proc[p].n # r

\* C5: when no verify is in progress for a payment its tickets all have the
\* payment's status, and no ticket is ever success unless its payment is
C5_TicketLockstep ==
  \A r \in Refs :
    /\ NoVerifyOn(r) => TicketsAll(r, payments[r].status) \/ payments[r].status = "none"
    /\ \A i \in 1..Len(tickets[r]) :
         tickets[r][i].status = "success" => payments[r].status = "success"

\* C6: no state has a SUCCESS payment with a pending or failed ticket, or a
\* FAILED payment with a success ticket
C6_AtomicSuccess ==
  \A r \in Refs :
    /\ payments[r].status = "success" => TicketsAll(r, "success")
    /\ payments[r].status = "failed"
         => \A i \in 1..Len(tickets[r]) : tickets[r][i].status # "success"

\* C7: when a verify request has been answered with success and no other
\* verify is being served, soldOut is the conjunction of sold >= quantity over
\* the event's tiers
C7_SoldOutRecomputed ==
  \A p \in Procs :
    (proc[p].pc = "done" /\ proc[p].resp = "ok" /\ Quiet)
      => soldOut = AllSoldOut(sold)


WaveTerminal == {"succeeded", "failed", "cancelled", "expired"}

DbUnchanged ==
  /\ payments' = payments
  /\ tickets' = tickets
  /\ sold' = sold
  /\ soldOut' = soldOut

C10_ErrorLeavesInventory ==
  \A p \in Procs :
    ( /\ proc[p].pc = "done"
      /\ proc[p].resp = "error"
      /\ proc[p].kind = "pay"
      /\ proc[p].cause # "StatusUpdateFailed" )
      => /\ payments[proc[p].n].status = "failed"
         /\ TicketsAll(proc[p].n, "failed")
         /\ ~proc[p].credited


TransferChecked(s) == treq[s].pc = "t_find" /\ treq'[s] # treq[s]

TicketUnchanged == tkt' = tkt /\ userTickets' = userTickets

\* the errors the caller of transfer may get for this ticket
TransferErrors(u) ==
  (IF tkt.status # "success" THEN {"TicketNotPaid"} ELSE {})
    \cup (IF tkt.user # u THEN {"NotOwner"} ELSE {})

\* C12: the checks of a transfer request let it pass exactly when the ticket is
\* success and the caller is its owner; otherwise the request fails with
\* TicketNotPaid (ticket not success) or NotOwner (caller not the owner) and the
\* ticket and the users' ticket lists are unchanged
C12_TransferGuard ==
  [][\A s \in TSlots :
       TransferChecked(s)
         => IF tkt.status = "success" /\ tkt.user = treq[s].caller
              THEN treq'[s].pc = "t_lookup"
              ELSE /\ treq'[s].pc = "done"
                   /\ treq'[s].resp = "error"
                   /\ treq'[s].cause \in TransferErrors(treq[s].caller)
                   /\ TicketUnchanged]_vars

\* the step is a cancelTransfer request of slot s
Cancelled(s) == treq'[s] # treq[s] /\ treq'[s].op = "cancel"

LatestTransfer == tkt.transferHistory[Len(tkt.transferHistory)]

\* C13: once buyer A has transferred the ticket, a cancelTransfer by A leaves
\* the ticket with owner A, the recipientInfo it had before the transfer,
\* transferred = false and the transfer record cancelled, and the ticket in
\* A's list and in no other list
C13_CancelRestores ==
  [][\A s \in TSlots :
       ( /\ Cancelled(s)
         /\ Len(tkt.transferHistory) = 1
         /\ treq'[s].caller = LatestTransfer.from
         /\ \A q \in TSlots : ~TRunning(q) )
         => /\ tkt'.user = "A"
            /\ tkt'.recipientInfo = "r0"
            /\ tkt'.transferred = FALSE
            /\ Field(tkt'.transferHistory[1], "status") = "cancelled"
            /\ userTickets' = {"A"}]_vars

\* the latest transfer of the ticket has been neither cancelled nor completed
TransferOpen ==
  /\ Len(tkt.transferHistory) > 0
  /\ Field(LatestTransfer, "status") \notin {"cancelled", "completed"}

\* C14: while the latest transfer is open, cancelTransfer by the user who made
\* it succeeds, and cancelTransfer by anyone else (the recipient included) is
\* rejected and changes nothing
C14_OnlySenderCancels ==
  [][\A s \in TSlots :
       (Cancelled(s) /\ TransferOpen)
         => IF treq'[s].caller = LatestTransfer.from
              THEN treq'[s].resp = "ok"
              ELSE treq'[s].resp = "error" /\ TicketUnchanged]_vars

TransferCommitted(s) == treq[s].pc = "t_commit" /\ treq'[s] # treq[s]

\* C16: a successful transfer sets the owner to the recipient's account (null
\* when the recipient has none), appends one TransferRecord with from = caller,
\* status pending and expiresAt = now + 24 h, sets transferred and
\* recipientInfo, and leaves the earlier records as they were
C16_TransferEffect ==
  [][\A s \in TSlots :
       TransferCommitted(s)
         => LET h == tkt'.transferHistory
                n == Len(tkt.transferHistory)
            IN  /\ treq'[s].resp = "ok"
                /\ tkt'.user = RecipientUser(treq[s].to)
                /\ tkt'.transferred = TRUE
                /\ tkt'.recipientInfo = treq[s].to
                /\ Len(h) = n + 1
                /\ SubSeq(h, 1, n) = tkt.transferHistory
                /\ h[n + 1].from = treq[s].caller
                /\ Field(h[n + 1], "status") = "pending"
                /\ "expiresAt" \in DOMAIN h[n + 1]
                /\ h[n + 1].expiresAt = now + TransferWindow]_vars

\* the step is the check step of the scan request in slot s
ScanChecked(s) == treq[s].pc = "sc_find" /\ treq'[s] # treq[s]

\* C17: a scan request passes its checks only for a success ticket that is not
\* yet scanned and whose event date has not passed; a rejected scan changes
\* nothing, and the scan that passed sets scanned, scannedAt and scannedBy
C17_ScanGuard ==
  [][\A s \in TSlots :
       /\ ScanChecked(s)
            => /\ treq'[s].pc = "sc_save"
                    => tkt.status = "success" /\ ~tkt.scanned /\ now <= tkt.eventDate
               /\ TicketUnchanged
       /\ (treq[s].pc = "sc_save" /\ treq'[s] # treq[s])
            => /\ tkt'.scanned /\ tkt'.scannedAt = now /\ tkt'.scannedBy = treq[s].caller
               /\ treq'[s].resp = "ok"]_vars


\* the step is a verification of the presented QR data
QrVerified == qr.made # <<>> /\ qr'.verdict # "none" /\ qr'.shown = qr.shown /\ now' = now

\* C18: verify applied to the unaltered generated payload returns that payload,
\* and with it the ticket's id, when at most 24 hours have passed since
\* generation, and rejects it when more have passed
C18_QrRoundTrip ==
  [][(QrVerified /\ qr.shown = Stringify(qr.made))
       => IF now - qr.made.timestamp <= QrMaxAge
            THEN qr'.verdict = "accepted" /\ Parse(qr.shown).ticketId = qr.made.ticketId
            ELSE qr'.verdict = "rejected"]_vars

\* C18 witness: the unaltered payload was accepted exactly 24 hours after it
\* was generated
C18_Witness ==
  /\ qr.made # <<>>
  /\ qr.shown = Stringify(qr.made)
  /\ qr.verdict = "accepted"
  /\ now - qr.made.timestamp = QrMaxAge

\* C19: verify rejects every presented payload that differs from the generated
\* one in ticketId, reference, eventId, timestamp or hash
C19_QrTamperRejected ==
  [][(QrVerified /\ qr.shown # Stringify(qr.made)) => qr'.verdict = "rejected"]_vars


\* C20: when two verify requests for different payments with tickets of the
\* same tier, each entered while its payment was not yet SUCCESS and served
\* while the other was being served, have both been answered with success, the
\* tier's sold count is the count before them plus both ticket quantities
C20_ConcurrentVerifiesAdd ==
  \A p, q \in Procs :
    ( /\ p # q
      /\ proc[p].pc = "done" /\ proc[p].resp = "ok" /\ proc[p].entry # "success"
      /\ proc[q].pc = "done" /\ proc[q].resp = "ok" /\ proc[q].entry # "success"
      /\ proc[p].n # proc[q].n
      /\ payments[proc[p].n].tier = payments[proc[q].n].tier )
      => sold[payments[proc[p].n].tier] = Len(tickets[proc[p].n]) + Len(tickets[proc[q].n])


\* C21: whenever a verify request has written its increment of the tier's sold
\* count, no ticket of its payment is still pending
C21_TicketsBeforeInventory ==
  \A p \in Procs :
    proc[p].credited
      => \A i \in 1..Len(tickets[proc[p].pay]) : tickets[proc[p].pay][i].status # "pending"

\* C21 witness: a request that is still being served has credited a payment of
\* two tickets, both of them success
C21_Witness ==
  \E p \in Procs :
    /\ proc[p].credited /\ Running(p)
    /\ Len(tickets[proc[p].pay]) = 2
    /\ TicketsAll(proc[p].pay, "success")
    /\ sold[payments[proc[p].pay].tier] >= 2


\* C22: a tier's sold count is changed only by a step of a verify request, it
\* never decreases, and a verify request that has ended otherwise than with
\* success (failed, still pending, error) has not changed it
C22_SoldOnlyBySuccess ==
  /\ [](\A p \in Procs : (proc[p].pc = "done" /\ proc[p].resp # "ok") => ~proc[p].credited)
  /\ [][\A t \in DOMAIN sold :
          sold'[t] # sold[t] => (sold'[t] > sold[t] /\ \E p \in Procs : StepOf(p))]_vars


\* the step is the first step of an initiate request: Event.findById and the
\* checks
InitiateChecked == ~IRunning /\ ireq' # ireq

\* what the request asks for is not on offer now
NotOnOffer(t, q) ==
  \/ soldOut
  \/ t \notin DOMAIN quantity
  \/ (t \in DOMAIN quantity /\ sold[t] >= quantity[t])
  \/ (t \in DOMAIN quantity /\ q > quantity[t] - sold[t])

\* C23: an initiate request that names no existing event, or whose event is
\* sold out, whose tier does not exist or is sold out, or whose quantity
\* exceeds quantity - sold of the tier, is rejected at once: no Payment, no
\* Ticket and no gateway session is created
C23_InitiateRejected ==
  [][(InitiateChecked /\ (ireq'.event # "e1" \/ NotOnOffer(ireq'.tier, ireq'.qty)))
       => /\ ireq'.pc = "done" /\ ireq'.resp = "rejected"
          /\ payments' = payments /\ tickets' = tickets /\ gwState' = gwState
          /\ nextRef' = nextRef]_vars

\* C23 witness: after a purchase that filled the VIP tier of the two-tier
\* event, a request for that tier has been rejected
C23_Witness ==
  /\ ireq.pc = "done" /\ ireq.resp = "rejected" /\ ireq.cause = "TierSoldOut"
  /\ ireq.tier = "VIP" /\ sold["VIP"] = quantity["VIP"] /\ ~soldOut


\* C24: when an initiate request for quantity q with reference R has been
\* answered with success, the Payment R is pending, there are exactly q Tickets
\* with paymentReference R, all pending, with the pairwise distinct references
\* R-TKT-0 .. R-TKT-(q-1), and the Payment's ticket list names exactly those
C24_InitiateCreates ==
  (ireq.pc = "done" /\ ireq.resp = "ok")
    => LET R == ireq.ref
           ts == tickets[R]
       IN  /\ payments[R].status = "pending"
           /\ Len(ts) = ireq.qty
           /\ \A i \in 1..Len(ts) :
                ts[i].status = "pending" /\ ts[i].reference = <<R, "TKT", i - 1>>
           /\ \A i, j \in 1..Len(ts) : i # j => ts[i].reference # ts[j].reference
           /\ Len(payments[R].tickets) = Len(ts)
           /\ \A i \in 1..Len(ts) : payments[R].tickets[i] = ts[i].reference

\* C24 witness: an initiate for two tickets has been answered with success
C24_Witness ==
  /\ ireq.pc = "done" /\ ireq.resp = "ok" /\ ireq.qty = 2
  /\ Len(tickets[ireq.ref]) = 2
  /\ payments[ireq.ref].status = "pending"


\* C26: a failed notification neither fails nor rolls back what triggered it.
\* A verify request whose SMS block failed goes on without a change of the
\* database and is answered with success, the payment SUCCESS and the inventory
\* credited; a transfer request whose SMS failed stays committed and is
\* answered with success
C26_NotificationBestEffort ==
  /\ [](\A p \in Procs :
          (proc[p].pc = "done" /\ proc[p].cause = "SmsFailed")
            => /\ proc[p].resp = "ok"
               /\ payments[proc[p].pay].status = "success"
               /\ proc[p].credited)
  /\ [][\A p \in Procs :
          (StepOf(p) /\ proc[p].pc = "c_sms") => (proc'[p].pc = "c_final" /\ DbUnchanged)]_vars
  /\ [][\A s \in TSlots :
          (treq[s].pc = "t_notify" /\ treq'[s] # treq[s])
            => (treq'[s].pc = "done" /\ treq'[s].resp = "ok" /\ TicketUnchanged)]_vars

\* C26 witness: the purchase was verified with success although its SMS
\* failed, and a transfer whose SMS failed is committed and answered with
\* success
C26_Witness ==
  /\ \E p \in Procs :
       /\ proc[p].pc = "done" /\ proc[p].resp = "ok" /\ proc[p].cause = "SmsFailed"
       /\ sold["VIP"] = 1
  /\ \E s \in TSlots :
       /\ treq[s].pc = "done" /\ treq[s].resp = "ok" /\ treq[s].cause = "SmsFailed"
       /\ tkt.transferred /\ tkt.user = "B"


\* C27: a transfer or cancelTransfer request that fails, in particular one
\* whose transaction was started and then aborted, leaves the stored ticket
\* (owner, recipientInfo, transferred, transferHistory) and every user's
\* ticket list as they were
C27_AllOrNothing ==
  [][\A s \in TSlots :
       (treq'[s] # treq[s] /\ treq'[s].pc = "done" /\ treq'[s].resp = "error"
          /\ treq'[s].op \in {"transfer", "cancel"})
         => TicketUnchanged]_vars

\* C27 witness: user B, who holds the ticket and has it in the ticket list,
\* asked to transfer it, and the transaction was aborted
C27_Witness ==
  \E s \in TSlots :
    /\ treq[s].op = "transfer" /\ treq[s].pc = "done"
    /\ treq[s].resp = "error" /\ treq[s].cause = "TransactionAborted"
    /\ treq[s].caller = "B" /\ tkt.user = "B" /\ userTickets = {"B"}


C29_WaveStatusMapping ==
  (wave.outcome # "none" /\ wave.data.http = 200)
    => wave.outcome =
         IF wave.data.payment_status = "succeeded" THEN "SUCCESS"
         ELSE IF wave.data.payment_status \in {"failed", "cancelled", "expired"} THEN "FAILED"
         ELSE "PENDING"


\* C30: every session-creation request a gateway receives carries the payment
\* reference as idempotency key, and no reference has more than one checkout
\* session
C30_IdempotentSessionCreation ==
  \A r \in Refs :
    /\ \A i \in 1..Len(gwLog[r].keys) : gwLog[r].keys[i] = r
    /\ gwLog[r].sessions <= 1


\* C25: a verify request in which the generation of a ticket's QR code failed
\* is still answered with success: the payment is SUCCESS, all of its tickets
\* are success and the tier's sold count has been incremented by the request
C25_QrFailureNotFatal ==
  \A p \in Procs :
    (proc[p].pc = "done" /\ proc[p].cause = "QrFailed")
      => /\ proc[p].resp = "ok"
         /\ payments[proc[p].pay].status = "success"
         /\ TicketsAll(proc[p].pay, "success")
         /\ proc[p].credited


\* C31: once the gateway has a checkout session for a reference, no step
\* deletes the Payment of that reference or its Tickets
C31_NoDeleteAfterSession ==
  [][\A r \in Refs :
       gwState[r] # "none"
         => /\ payments[r] # NoPayment => payments'[r] # NoPayment
            /\ tickets[r] # <<>> => tickets'[r] # <<>>]_vars


C33_CompensationOwnRecords ==
  [][ireq.cause = "DuplicateReference" => (payments' = payments /\ tickets' = tickets)]_vars


\* getEventTicketsInfo: the number of success tickets of tier t (a ticket has
\* the tier of the payment it was created for)
ticketsByType(t) ==
  Cardinality({ x \in Refs \X (1..MaxQty) :
                  /\ payments[x[1]].tier = t
                  /\ x[2] <= Len(tickets[x[1]])
                  /\ tickets[x[1]][x[2]].status = "success" })

\* C34: whenever no verify request is being served, each tier's stored sold
\* count equals the number of success tickets of that tier, the count that
\* getEventTicketsInfo derives from the ticket records
C34_SoldMatchesTickets ==
  Quiet => \A t \in DOMAIN quantity : sold[t] = ticketsByType(t)


\* C35: every ticket that has been scanned has status success: no later step
\* (a verify retry, the error path of a verify on the same reference) makes a
\* scanned ticket failed or pending
C35_ScannedIsPaid ==
  \A r \in Refs : \A i \in 1..Len(tickets[r]) :
    tickets[r][i].scanned => tickets[r][i].status = "success"


\* the scan request of slot s has been answered with success
ScanSucceeded(s) == treq[s].op = "scan" /\ treq[s].pc = "done" /\ treq[s].resp = "ok"

\* C36: of the scan requests for one ticket at most one is answered with
\* success, also when two of them are served at the same time, and scannedBy
\* names the admin of that scan
C36_OneScanSucceeds ==
  /\ \A s1, s2 \in TSlots : (ScanSucceeded(s1) /\ ScanSucceeded(s2)) => s1 = s2
  /\ \A s \in TSlots : ScanSucceeded(s) => (tkt.scanned /\ tkt.scannedBy = treq[s].caller)

\* C37: the ticket is in at most one user's ticket list, and a user who has it
\* in the list is its owner
C37_OneListOwner ==
  /\ Cardinality(userTickets) <= 1
  /\ \A u \in userTickets : tkt.user = u


\* C38: once the gateway reports a terminal status for the session of a Wave
\* payment, and the caller keeps polling verify, the payment eventually is
\* SUCCESS or FAILED and all its tickets have that same status
C38_WavePollingTerminates ==
  (payments[1].gateway = "wave" /\ gwState[1] \in {"paid", "dead"})
    ~> (payments[1].status \in {"success", "failed"} /\ TicketsAll(1, payments[1].status))

\* C38 witness: a poll that found the payment pending and the session paid has
\* been answered with success, payment and both tickets success
C38_Witness ==
  /\ payments[1].gateway = "wave" /\ gwState[1] = "paid"
  /\ proc["A"].pc = "done" /\ proc["A"].resp = "ok" /\ proc["A"].entry = "pending"
  /\ payments[1].status = "success"
  /\ Len(tickets[1]) = 2 /\ TicketsAll(1, "success")

====
